---- MODULE Spec2Model ----
(***************************************************************************)
(* A model of src/server.js: a Node.js HTTP server that answers            *)
(* /api/data with a fixed JSON document and every other URL with a file    *)
(* read from the directory of the script.                                  *)
(*                                                                         *)
(* Strings are sequences of one-character strings, so that parsing,        *)
(* percent-decoding, path normalisation and extension extraction are       *)
(* computed character by character as the runtime computes them.  A        *)
(* decoded character outside ASCII is the string "U+<code point>".         *)
(***************************************************************************)
EXTENDS Integers, Sequences, FiniteSets, TLC

VARIABLES
    env,        \* process.env.PORT: a string, or Undefined when unset
    phase,      \* "load" | "listening" | "crashed" (uncaught exception)
    port,       \* const port (line 16); 0 until the script has run
    data,       \* const data (lines 23-69): the object JSON.stringify reads
    mimeTypes,  \* const mimeTypes (lines 72-81)
    fs,         \* the filesystem the process reads
    reqs        \* the requests the server has accepted, in order of arrival

vars == <<env, phase, port, data, mimeTypes, fs, reqs>>

----------------------------------------------------------------------------
(* Bounds of the model. *)

\* Requests accepted in one behaviour of Spec; SpecRepeat accepts one more.
MaxReqs == 2
\* Longest URL, after its leading "/", enumerated exhaustively over
\* UrlAlphabet in SpecUrl.
MaxUrlLen == 4
\* Longest PORT value enumerated exhaustively over EnvAlphabet in SpecPort.
MaxEnvLen == 3

----------------------------------------------------------------------------
(* Characters. *)

\* The value of an absent property (req.url, process.env.PORT).  It is a
\* one-element sequence whose element is no character, so that it is distinct
\* from every string, including the empty one.
Undefined == <<"<undefined>">>

AsciiTable ==
    << "<00>", "<01>", "<02>", "<03>", "<04>", "<05>", "<06>", "<07>",
       "<08>", "<09>", "<0A>", "<0B>", "<0C>", "<0D>", "<0E>", "<0F>",
       "<10>", "<11>", "<12>", "<13>", "<14>", "<15>", "<16>", "<17>",
       "<18>", "<19>", "<1A>", "<1B>", "<1C>", "<1D>", "<1E>", "<1F>",
       " ", "!", "<22>", "#", "$", "%", "&", "'",
       "(", ")", "*", "+", ",", "-", ".", "/",
       "0", "1", "2", "3", "4", "5", "6", "7",
       "8", "9", ":", ";", "<", "=", ">", "?",
       "@", "A", "B", "C", "D", "E", "F", "G",
       "H", "I", "J", "K", "L", "M", "N", "O",
       "P", "Q", "R", "S", "T", "U", "V", "W",
       "X", "Y", "Z", "[", "<5C>", "]", "^", "_",
       "<60>", "a", "b", "c", "d", "e", "f", "g",
       "h", "i", "j", "k", "l", "m", "n", "o",
       "p", "q", "r", "s", "t", "u", "v", "w",
       "x", "y", "z", "{", "|", "}", "~", "<7F>" >>

\* The character of an ASCII byte, 0..127.
AsciiChar(b) == AsciiTable[b + 1]

\* The byte of an ASCII character, or -1 for a character outside ASCII.
AsciiCode(c) ==
    IF \E i \in 1..128 : AsciiTable[i] = c
    THEN (CHOOSE i \in 1..128 : AsciiTable[i] = c) - 1
    ELSE -1

IsDigit(c) == AsciiCode(c) \in 48..57
DigitVal(c) == AsciiCode(c) - 48

IsHexDigit(c) ==
    \/ AsciiCode(c) \in 48..57
    \/ AsciiCode(c) \in 65..70
    \/ AsciiCode(c) \in 97..102

HexVal(c) ==
    LET a == AsciiCode(c)
    IN  IF a \in 48..57 THEN a - 48
        ELSE IF a \in 65..70 THEN a - 55
        ELSE a - 87

\* String.prototype.toLowerCase on one character.  A character outside ASCII
\* is left as it is: the only one that lowercases to an ASCII letter is
\* U+212A, to "k", and no key of mimeTypes holds a "k".
LowerChar(c) ==
    LET a == AsciiCode(c)
    IN  IF a \in 65..90 THEN AsciiChar(a + 32) ELSE c

toLowerCase(s) == [i \in 1..Len(s) |-> LowerChar(s[i])]

\* The white space Number.parseInt skips (StrWhiteSpaceChar), within ASCII.
IsWhiteSpace(c) == AsciiCode(c) \in {9, 10, 11, 12, 13, 32}

\* s starts with p.
StartsWith(s, p) == Len(s) >= Len(p) /\ SubSeq(s, 1, Len(p)) = p

\* All strings over alphabet A of length at most n.
RECURSIVE StringsUpTo(_, _)
StringsUpTo(A, n) ==
    IF n = 0 THEN {<<>>}
    ELSE LET shorter == StringsUpTo(A, n - 1)
         IN  shorter \cup {Append(s, c) : s \in shorter, c \in A}

----------------------------------------------------------------------------
(* Port selection, line 16:                                                *)
(*   const port = Number.parseInt(process.env.PORT, 10) || 3000;           *)

DefaultPort == 3000
MaxTcpPort == 65535

NaN == [nan |-> TRUE, val |-> 0]
Num(n) == [nan |-> FALSE, val |-> n]

\* The index of the first character of s at or after k that is not white
\* space, Len(s) + 1 when there is none.
RECURSIVE SkipWhiteSpace(_, _)
SkipWhiteSpace(s, k) ==
    IF k <= Len(s) /\ IsWhiteSpace(s[k]) THEN SkipWhiteSpace(s, k + 1) ELSE k

\* The value of the longest run of decimal digits of s starting at k, given
\* the value acc of the digits already read.
RECURSIVE DigitsValue(_, _, _)
DigitsValue(s, k, acc) ==
    IF k <= Len(s) /\ IsDigit(s[k])
    THEN DigitsValue(s, k + 1, acc * 10 + DigitVal(s[k]))
    ELSE acc

\* Number.parseInt(s, 10): leading white space is skipped, one sign is read,
\* then the longest prefix of decimal digits; what follows the digits is
\* ignored; no digit at all gives NaN.  With the radix given as 10 a "0x"
\* prefix is not stripped.  An undefined argument is the string "undefined".
parseInt10(s) ==
    IF s = Undefined THEN NaN
    ELSE
        LET k    == SkipWhiteSpace(s, 1)
            neg  == k <= Len(s) /\ s[k] = "-"
            sgn  == k <= Len(s) /\ s[k] \in {"-", "+"}
            d    == IF sgn THEN k + 1 ELSE k
        IN  IF d > Len(s) \/ ~IsDigit(s[d]) THEN NaN
            ELSE LET v == DigitsValue(s, d, 0)
                 IN  Num(IF neg THEN -v ELSE v)

\* n || d : NaN and 0 (also -0) are falsy.
OrDefault(n, d) == IF n.nan \/ n.val = 0 THEN d ELSE n.val

\* Line 16.
ParsePort(e) == OrDefault(parseInt10(e), DefaultPort)

----------------------------------------------------------------------------
(* decodeURIComponent, line 120.                                           *)

URIError == [ok |-> FALSE, s |-> <<>>]
Decoded(s) == [ok |-> TRUE, s |-> s]

\* s holds an escape "%XX" at index k.
EscapeAt(s, k) ==
    /\ k + 2 <= Len(s)
    /\ s[k] = "%"
    /\ IsHexDigit(s[k + 1])
    /\ IsHexDigit(s[k + 2])

\* The byte of the escape at index k.
EscByte(s, k) == 16 * HexVal(s[k + 1]) + HexVal(s[k + 2])

\* The number of bytes of the UTF-8 sequence that byte b >= 128 leads; 0 when
\* b is a continuation byte or leads more than four bytes.
Utf8Len(b) ==
    IF b \in 192..223 THEN 2
    ELSE IF b \in 224..239 THEN 3
    ELSE IF b \in 240..247 THEN 4
    ELSE 0

\* The n - 1 escapes after the one at k are continuation bytes.
ContinuationsAt(s, k, n) ==
    \A j \in 1..(n - 1) :
        EscapeAt(s, k + 3 * j) /\ EscByte(s, k + 3 * j) \in 128..191

\* The code point of the n-byte sequence starting at the escape at k.
Utf8CodePoint(s, k, n) ==
    LET b0 == EscByte(s, k)
        c(j) == EscByte(s, k + 3 * j) - 128
    IN  IF n = 2 THEN (b0 - 192) * 64 + c(1)
        ELSE IF n = 3 THEN (b0 - 224) * 4096 + c(1) * 64 + c(2)
        ELSE (b0 - 240) * 262144 + c(1) * 4096 + c(2) * 64 + c(3)

\* cp is what a well-formed n-byte sequence encodes: not overlong, no
\* surrogate, at most U+10FFFF.
ValidCodePoint(cp, n) ==
    IF n = 2 THEN cp >= 128
    ELSE IF n = 3 THEN cp >= 2048 /\ cp \notin 55296..57343
    ELSE cp \in 65536..1114111

\* A character outside ASCII.
UChar(cp) == "U+" \o ToString(cp)

\* decodeURIComponent on s from index k on.  Every well-formed escape is
\* decoded; a "%" that starts no escape, a byte that starts no UTF-8 sequence,
\* a missing or wrong continuation byte and an ill-formed sequence all throw
\* URIError.
RECURSIVE DecodeFrom(_, _)
DecodeFrom(s, k) ==
    IF k > Len(s) THEN Decoded(<<>>)
    ELSE IF s[k] # "%" THEN
        LET rest == DecodeFrom(s, k + 1)
        IN  IF rest.ok THEN Decoded(<<s[k]>> \o rest.s) ELSE URIError
    ELSE IF ~EscapeAt(s, k) THEN URIError
    ELSE IF EscByte(s, k) < 128 THEN
        LET rest == DecodeFrom(s, k + 3)
        IN  IF rest.ok
            THEN Decoded(<<AsciiChar(EscByte(s, k))>> \o rest.s)
            ELSE URIError
    ELSE
        LET n == Utf8Len(EscByte(s, k))
        IN  IF n = 0 \/ ~ContinuationsAt(s, k, n) THEN URIError
            ELSE IF ~ValidCodePoint(Utf8CodePoint(s, k, n), n) THEN URIError
            ELSE
                LET rest == DecodeFrom(s, k + 3 * n)
                IN  IF rest.ok
                    THEN Decoded(<<UChar(Utf8CodePoint(s, k, n))>> \o rest.s)
                    ELSE URIError

decodeURIComponent(s) == DecodeFrom(s, 1)

----------------------------------------------------------------------------
(* path.join and path.extname (POSIX), lines 120 and 98.                   *)

\* The segments of s between "/" characters, empty ones included.
RECURSIVE SplitFrom(_, _, _)
SplitFrom(s, k, cur) ==
    IF k > Len(s) THEN <<cur>>
    ELSE IF s[k] = "/" THEN <<cur>> \o SplitFrom(s, k + 1, <<>>)
    ELSE SplitFrom(s, k + 1, Append(cur, s[k]))

Split(s) == SplitFrom(s, 1, <<>>)

\* normalizeString for an absolute path: empty and "." segments are dropped,
\* ".." removes the segment before it and is dropped at the root.
RECURSIVE NormalizeSegs(_, _, _)
NormalizeSegs(segs, k, out) ==
    IF k > Len(segs) THEN out
    ELSE IF segs[k] = <<>> \/ segs[k] = <<".">> THEN
        NormalizeSegs(segs, k + 1, out)
    ELSE IF segs[k] = <<".", ".">> THEN
        NormalizeSegs(segs, k + 1,
                      IF Len(out) = 0 THEN out ELSE SubSeq(out, 1, Len(out) - 1))
    ELSE NormalizeSegs(segs, k + 1, Append(out, segs[k]))

\* The segments joined by "/", without a leading one.
RECURSIVE JoinSegs(_)
JoinSegs(segs) ==
    IF Len(segs) = 0 THEN <<>>
    ELSE IF Len(segs) = 1 THEN segs[1]
    ELSE segs[1] \o <<"/">> \o JoinSegs(Tail(segs))

\* path.normalize of an absolute path: a trailing separator is kept.
normalize(p) ==
    LET trailing == p[Len(p)] = "/"
        body     == JoinSegs(NormalizeSegs(Split(p), 1, <<>>))
    IN  IF Len(body) = 0 THEN <<"/">>
        ELSE <<"/">> \o body \o (IF trailing THEN <<"/">> ELSE <<>>)

\* path.join(dir, p) for an absolute dir: the arguments that are not empty
\* are joined by "/" and the result is normalised.
pathJoin(dir, p) ==
    IF Len(p) = 0 THEN normalize(dir) ELSE normalize(dir \o <<"/">> \o p)

\* The index of the last "." of s, 0 when there is none.
LastDot(s) ==
    IF \E i \in 1..Len(s) : s[i] = "."
    THEN CHOOSE i \in 1..Len(s) :
            s[i] = "." /\ \A j \in (i + 1)..Len(s) : s[j] # "."
    ELSE 0

\* The last segment of p that is not empty (trailing separators are
\* ignored), the empty string when there is none.
Basename(p) ==
    LET segs == SelectSeq(Split(p), LAMBDA g : g # <<>>)
    IN  IF Len(segs) = 0 THEN <<>> ELSE segs[Len(segs)]

\* path.extname: from the last "." of the last segment to its end; empty
\* when there is no ".", when the only "." is the first character of the
\* segment, and for the segment "..".
extname(p) ==
    LET base == Basename(p)
        d    == LastDot(base)
    IN  IF d = 0 \/ d = 1 \/ base = <<".", ".">> THEN <<>>
        ELSE SubSeq(base, d, Len(base))

----------------------------------------------------------------------------
(* The product summary and JSON.stringify, lines 23-69 and 108.            *)

\* const data.  The members are kept in the order of the object literal, the
\* order in which JSON.stringify writes them.  The two characters of the
\* source outside ASCII are written in ASCII: U+2011 as "-", U+2014 as "--".
\* No literal holds a character that JSON.stringify would escape.
ProductSummary ==
    <<
      [key |-> "problem", array |-> FALSE,
       items |-> <<
             "Moving money across borders with traditional banks is slow, costly and lacks transparency. Exchange rates often include hidden mark-ups and customers rarely know the full cost upfront." >>],
      [key |-> "solution", array |-> TRUE,
       items |-> <<
             "Open a single account to hold and convert more than 40 currencies.",
             "Send payments to over 70 countries using the mid-market rate and low fees.",
             "Spend or withdraw cash in 160+ countries with a Wise card; freeze and unfreeze the card in-app.",
             "Transfers are protected with two-factor authentication, encryption and biometrics." >>],
      [key |-> "coreFeatures", array |-> TRUE,
       items |-> <<
             "Multi-currency wallet with instant conversion between 40+ currencies.",
             "Low, transparent transfer fees starting from around 0.43%.",
             "Fast transfers -- over 65% arrive in under 20 seconds.",
             "Local account details for 9 currencies so you can get paid like a local.",
             "Wise card for global spending and cash withdrawals with automatic currency conversion.",
             "In-app dashboard to track balances, transfers and transaction history." >>],
      [key |-> "targetUsers", array |-> TRUE,
       items |-> <<
             "Freelancers and remote workers paid in multiple currencies.",
             "Expats and travellers managing money abroad.",
             "Small businesses paying overseas suppliers and contractors.",
             "Individuals sending money to family in other countries." >>],
      [key |-> "valueProposition", array |-> TRUE,
       items |-> <<
             "Real mid-market exchange rates with no hidden mark-ups.",
             "Faster transfers than traditional banks -- many arrive instantly.",
             "Transparent pricing displayed before you send.",
             "Local account details make receiving payments simple and often free.",
             "Regulated money services business, using two-factor authentication and encryption." >>],
      [key |-> "successMetrics", array |-> TRUE,
       items |-> <<
             "Growth in transfer volume and repeat transactions.",
             "Retention of active users and frequency of app usage.",
             "App Store rating (currently 4.7/5 with 91k+ reviews).",
             "Expansion of the customer base (16 million+ users worldwide)." >>],
      [key |-> "techStack", array |-> TRUE,
       items |-> <<
             "Native apps for iOS and Android devices.",
             "Back-end integrations with global banking networks and payment rails.",
             "Security features including two-factor authentication, encryption and biometric logins.",
             "Wise operates as a Money Service Business rather than a bank, safeguarding funds through partner banks." >>],
      [key |-> "monetization", array |-> TRUE,
       items |-> <<
             "Small flat fees and a low margin on currency conversion.",
             "Interest on USD balances for eligible US customers." >>]
    >>

Quote(s) == "\"" \o s \o "\""

\* The elements of a sequence of strings, separated by commas.
RECURSIVE CommaJoin(_)
CommaJoin(ss) ==
    IF Len(ss) = 0 THEN ""
    ELSE IF Len(ss) = 1 THEN ss[1]
    ELSE ss[1] \o "," \o CommaJoin(Tail(ss))

\* One member of the object: "key":"text" or "key":["text",...].
JSONMember(m) ==
    LET quoted == [i \in 1..Len(m.items) |-> Quote(m.items[i])]
    IN  Quote(m.key) \o ":" \o
        (IF m.array THEN "[" \o CommaJoin(quoted) \o "]" ELSE quoted[1])

\* JSON.stringify of an object of strings and arrays of strings.
JSONstringify(obj) ==
    "{" \o CommaJoin([i \in 1..Len(obj) |-> JSONMember(obj[i])]) \o "}"

----------------------------------------------------------------------------
(* The MIME table, lines 72-81 and 99.                                     *)

OctetStream == "application/octet-stream"

MimeTable ==
    (<<".", "h", "t", "m", "l">> :> "text/html; charset=UTF-8") @@
    (<<".", "c", "s", "s">>      :> "text/css; charset=UTF-8") @@
    (<<".", "j", "s">>           :> "text/javascript; charset=UTF-8") @@
    (<<".", "j", "s", "o", "n">> :> "application/json; charset=UTF-8") @@
    (<<".", "p", "n", "g">>      :> "image/png") @@
    (<<".", "j", "p", "g">>      :> "image/jpeg") @@
    (<<".", "j", "p", "e", "g">> :> "image/jpeg") @@
    (<<".", "s", "v", "g">>      :> "image/svg+xml")

\* mimeTypes[ext] || 'application/octet-stream'.  Every key of the table and
\* no inherited property of the object starts with ".", and an extension is
\* empty or starts with ".", so only the table's own keys are found.
MimeLookup(tbl, ext) == IF ext \in DOMAIN tbl THEN tbl[ext] ELSE OctetStream

\* Faulty variant of StaticMime: the extension is not lowercased.
StaticMimeCaseSensitive(tbl, filePath) == MimeLookup(tbl, extname(filePath))

\* Lines 98-99: the type is looked up under the lowercased extension.
StaticMime(tbl, filePath) == MimeLookup(tbl, toLowerCase(extname(filePath)))

----------------------------------------------------------------------------
(* The filesystem and fs.readFile, line 93.                                *)

\* __dirname, the directory of server.js: "/srv/app".
BaseDir == <<"/", "s", "r", "v", "/", "a", "p", "p">>

\* The path of a name inside the base directory.
InBase(name) == BaseDir \o <<"/">> \o name

File(content) == [kind |-> "file", content |-> content]
Dir == [kind |-> "dir", content |-> ""]
NoAccess == [kind |-> "noaccess", content |-> ""]

IndexHtml == <<"i", "n", "d", "e", "x", ".", "h", "t", "m", "l">>
\* "/srv/e": a file next to the base directory, outside it.
OutsideFile == <<"/", "s", "r", "v", "/", "e">>

\* A site with one file for every row of the MIME table, files with an
\* upper-case, an unknown, an empty and a dot-only extension, a hidden file,
\* a file in a subdirectory, an unreadable file and an empty directory.
FsSite ==
    (InBase(IndexHtml) :> File("<h1>Wise</h1>")) @@
    (InBase(<<"s", ".", "c", "s", "s">>) :> File("body{}")) @@
    (InBase(<<"a", "p", "p", ".", "j", "s">>) :> File("fetch()")) @@
    (InBase(<<"d", ".", "j", "s", "o", "n">>) :> File("[1]")) @@
    (InBase(<<"L", ".", "P", "N", "G">>) :> File("PNG-bytes")) @@
    (InBase(<<"p", ".", "j", "p", "g">>) :> File("JPG-bytes")) @@
    (InBase(<<"p", ".", "J", "p", "e", "g">>) :> File("JPEG-bytes")) @@
    (InBase(<<"i", ".", "s", "v", "g">>) :> File("<svg/>")) @@
    (InBase(<<"x", ".", "x", "y", "z">>) :> File("xyz-bytes")) @@
    (InBase(<<"a">>) :> File("a-bytes")) @@
    (InBase(<<"a", ".", "e">>) :> File("a.e-bytes")) @@
    (InBase(<<"a", ".">>) :> File("a.-bytes")) @@
    (InBase(<<".", "a">>) :> File(".a-bytes")) @@
    (InBase(<<"e", "/", "a", ".", "H", "T", "M", "L">>) :> File("<p>e/a</p>")) @@
    (InBase(<<"k", ".", "c", "s", "s">>) :> NoAccess) @@
    (InBase(<<"2">>) :> Dir) @@
    (OutsideFile :> File("secret"))

\* The same site with index.html unreadable.
FsIndexNoAccess ==
    (InBase(IndexHtml) :> NoAccess) @@ FsSite

\* A directory named index.html, and a file named e where FsSite has a
\* directory.
FsIndexIsDir ==
    (InBase(IndexHtml \o <<"/", "a">>) :> File("nested")) @@
    (InBase(<<"e">>) :> File("e-bytes")) @@
    (InBase(<<"s", ".", "c", "s", "s">>) :> File("body{}")) @@
    (OutsideFile :> File("secret"))

FsStates == {FsSite, FsIndexNoAccess, FsIndexIsDir}

ReadOk(content) == [err |-> "", content |-> content]
ReadErr(code) == [err |-> code, content |-> ""]

\* fs.readFile(p) on filesystem f, for a normalised absolute path p.  The
\* directories of f are its Dir entries and every proper ancestor of an entry.
readFile(f, p) ==
    LET trailing == Len(p) > 1 /\ p[Len(p)] = "/"
        q        == IF trailing THEN SubSeq(p, 1, Len(p) - 1) ELSE p
    IN  IF q \in DOMAIN f THEN
            IF f[q].kind = "file"
            THEN IF trailing THEN ReadErr("ENOTDIR") ELSE ReadOk(f[q].content)
            ELSE IF f[q].kind = "dir" THEN ReadErr("EISDIR")
            ELSE ReadErr("EACCES")
        ELSE IF q = <<"/">> \/ \E g \in DOMAIN f : StartsWith(g, q \o <<"/">>)
        THEN ReadErr("EISDIR")
        ELSE IF \E g \in DOMAIN f :
                    f[g].kind = "file" /\ StartsWith(q, g \o <<"/">>)
        THEN ReadErr("ENOTDIR")
        ELSE ReadErr("ENOENT")

----------------------------------------------------------------------------
(* Requests and the request handler, lines 92-130.                         *)

ApiPath == <<"/", "a", "p", "i", "/", "d", "a", "t", "a">>
IndexPath == <<"/">> \o IndexHtml

JsonType == "application/json; charset=UTF-8"
PlainType == "text/plain; charset=UTF-8"
NotFoundBody == "404 Not Found"

\* A request as it reaches the handler, with the response object res:
\*   st        "new", "reading" (fs.readFile outstanding), "done" (res.end
\*             called), "fault" (the handler threw), "aborted" (the process
\*             ended while the read was outstanding)
\*   via       the branch that took the request: "api", "static" or "none"
\*   safePath  the path given to fs.readFile
\*   heads, ends, callbacks   calls of res.writeHead, of res.end and of the
\*             callback given to serveStatic
\*   readDone, readErr        fs.readFile has called back, and its error code
NewReq(m, url) ==
    [method |-> m, url |-> url, st |-> "new", via |-> "none",
     safePath |-> <<>>, heads |-> 0, ends |-> 0, callbacks |-> 0,
     readDone |-> FALSE, readErr |-> "",
     status |-> 0, ctype |-> "", body |-> ""]

\* res.writeHead(status, {'Content-Type': ctype}); res.end(body).
Respond(r, status, ctype, body) ==
    [r EXCEPT !.heads = @ + 1, !.ends = @ + 1, !.st = "done",
              !.status = status, !.ctype = ctype, !.body = body]

\* Faulty variant of IsApi: a prefix test instead of equality.
IsApiPrefix(url) == StartsWith(url, ApiPath)

\* Line 107: req.url === '/api/data'.
IsApi(url) == url = ApiPath

\* Faulty variant of NormaliseUrl: lines 116-118 are missing, so that only an
\* absent or empty URL becomes "/index.html".
NormaliseUrlNoRoot(url) ==
    IF url = Undefined \/ url = <<>> THEN IndexPath ELSE url

\* Lines 115-118: an absent or empty URL and "/" become "/index.html".
NormaliseUrl(url) ==
    LET urlPath == IF url = Undefined \/ url = <<>> THEN IndexPath ELSE url
    IN  IF urlPath = <<"/">> \/ urlPath = <<>> THEN IndexPath ELSE urlPath

\* Lines 105-121, the synchronous part of the handler, for object d as data:
\* the API response, or a URIError thrown by decodeURIComponent that nothing
\* catches, or a file read started on the joined path.
Handler(r, d) ==
    IF IsApi(r.url)
    THEN Respond([r EXCEPT !.via = "api"], 200, JsonType, JSONstringify(d))
    ELSE
        LET dec == decodeURIComponent(NormaliseUrl(r.url))
        IN  IF ~dec.ok THEN [r EXCEPT !.st = "fault"]
            ELSE [r EXCEPT !.via = "static", !.st = "reading",
                           !.safePath = pathJoin(BaseDir, dec.s)]

\* Faulty variant of ServeStatic: the return of line 96 is missing, so that
\* after an error the callback is called a second time.
ServeStaticNoReturn(res, tbl, filePath) ==
    IF res.err # ""
    THEN << [err |-> res.err, content |-> "", mimeType |-> ""],
            [err |-> "", content |-> res.content,
             mimeType |-> StaticMime(tbl, filePath)] >>
    ELSE << [err |-> "", content |-> res.content,
             mimeType |-> StaticMime(tbl, filePath)] >>

\* Lines 93-101: the calls serveStatic makes of its callback when the read
\* of filePath ends with result res, in order.
ServeStatic(res, tbl, filePath) ==
    IF res.err # ""
    THEN << [err |-> res.err, content |-> "", mimeType |-> ""] >>
    ELSE << [err |-> "", content |-> res.content,
             mimeType |-> StaticMime(tbl, filePath)] >>

\* Faulty variant of HandlerCallback: a permission error is answered with 403.
HandlerCallbackByKind(r, cb) ==
    LET called == [r EXCEPT !.callbacks = @ + 1]
    IN  IF cb.err = "EACCES"
        THEN Respond(called, 403, PlainType, "403 Forbidden")
        ELSE IF cb.err # ""
        THEN Respond(called, 404, PlainType, NotFoundBody)
        ELSE Respond(called, 200, cb.mimeType, cb.content)

\* Lines 121-129: the callback the handler gives to serveStatic.
HandlerCallback(r, cb) ==
    LET called == [r EXCEPT !.callbacks = @ + 1]
    IN  IF cb.err # ""
        THEN Respond(called, 404, PlainType, NotFoundBody)
        ELSE Respond(called, 200, cb.mimeType, cb.content)

RECURSIVE ApplyCallbacks(_, _)
ApplyCallbacks(r, cbs) ==
    IF Len(cbs) = 0 THEN r
    ELSE ApplyCallbacks(HandlerCallback(r, Head(cbs)), Tail(cbs))

\* The process ends: the reads still outstanding are never answered.
AbortAll(rs) ==
    [i \in 1..Len(rs) |->
        IF rs[i].st = "reading" THEN [rs[i] EXCEPT !.st = "aborted"] ELSE rs[i]]

----------------------------------------------------------------------------
(* Inputs. *)

Methods == {"GET", "POST"}

\* The URLs of the requests of Spec.
ConcUrls ==
    { Undefined,
      <<>>,
      <<"/">>,
      IndexPath,
      ApiPath,
      ApiPath \o <<"?", "q">>,                               \* /api/data?q
      <<"/", "a", "p", "i", "%", "2", "F", "d", "a", "t", "a">>, \* /api%2Fdata
      <<"/", "s", ".", "c", "s", "s">>,                      \* /s.css
      <<"/", "%">>,                                          \* /%
      <<"/", ".", ".", "/", "e">> }                          \* /../e

\* The URLs of the requests of SpecRepeat.
RepeatUrls == { <<"/">>, ApiPath, <<"/", "a">> }

UrlAlphabet == {"/", ".", "%", "2", "e", "a"}

\* URLs of SpecUrl beyond the enumerated ones.
UrlSamples ==
    ConcUrls \cup
    { <<"/", "a", "p", "p", ".", "j", "s">>,
      <<"/", "d", ".", "j", "s", "o", "n">>,
      <<"/", "L", ".", "P", "N", "G">>,
      <<"/", "l", ".", "p", "n", "g">>,
      <<"/", "p", ".", "j", "p", "g">>,
      <<"/", "p", ".", "J", "p", "e", "g">>,
      <<"/", "i", ".", "s", "v", "g">>,
      <<"/", "x", ".", "x", "y", "z">>,
      <<"/", "k", ".", "c", "s", "s">>,
      <<"/", "e", "/", "a", ".", "H", "T", "M", "L">>,
      <<"/", "i", "n", "d", "e", "x", ".", "h", "t", "m", "l", "/">>,
      <<"/", "i", "n", "d", "e", "x", ".", "h", "t", "m", "l", "?", "v">>,
      <<"/", "i", "n", "d", "e", "x", "%", "2", "E", "h", "t", "m", "l">>,
      <<"/", "A", "P", "I", "/", "D", "A", "T", "A">>,
      ApiPath \o <<"/">>,
      <<"/", "%", "E", "0", "%", "A", "4", "%", "A">>,       \* /%E0%A4%A
      <<"/", "%", "E", "0", "%", "A", "4", "%", "A", "4">>,  \* /%E0%A4%A4
      <<"/", "%", "C", "0", "%", "8", "0">>,                 \* overlong
      <<"/", "%", "2", "e", "%", "2", "e", "/", "e">>,       \* /%2e%2e/e
      <<"/", "a", "/", ".", ".", "%", "2", "f", ".", ".", "%", "2", "f", "e">>,
                                                             \* /a/..%2f..%2fe
      <<"/", "e", "/", ".", ".", "/", "s", ".", "c", "s", "s">> } \* /e/../s.css

\* The samples, and "/" followed by every string over UrlAlphabet of length
\* at most MaxUrlLen: a request target in origin form starts with "/".
AllUrls ==
    UrlSamples \cup {<<"/">> \o t : t \in StringsUpTo(UrlAlphabet, MaxUrlLen)}

EnvAlphabet == {"8", "0", "a", "x", " ", "-"}

\* Values of PORT beyond the enumerated ones.
EnvSamples ==
    { Undefined,
      <<"8", "0", "8", "0">>,
      <<"8", "0", "8", "0", "a", "b", "c">>,
      <<"0", "x", "1", "F">>,
      <<"a", "b", "c">>,
      <<"7", "0", "0", "0", "0">>,
      <<"3", "0", "0", "0">> }

PortEnvs == EnvSamples \cup StringsUpTo(EnvAlphabet, MaxEnvLen)

----------------------------------------------------------------------------
(* The state machine. *)

Init ==
    /\ env = Undefined
    /\ phase = "load"
    /\ port = 0
    /\ data = ProductSummary
    /\ mimeTypes = MimeTable
    /\ fs \in FsStates
    /\ reqs = <<>>

InitPort ==
    /\ env \in PortEnvs
    /\ phase = "load"
    /\ port = 0
    /\ data = ProductSummary
    /\ mimeTypes = MimeTable
    /\ fs = FsSite
    /\ reqs = <<>>

\* The script runs, lines 11-134: the port is chosen and server.listen binds
\* it; listen throws for a port outside 0..65535 and nothing catches it.
Start ==
    /\ phase = "load"
    /\ port' = ParsePort(env)
    /\ phase' = IF ParsePort(env) \in 0..MaxTcpPort THEN "listening"
                ELSE "crashed"
    /\ UNCHANGED <<env, data, mimeTypes, fs, reqs>>

\* A request with a URL of U arrives and the handler runs, lines 105-130, up
\* to its return.  A URIError leaves the handler as an uncaught exception,
\* which ends the process.
Request(U, limit) ==
    /\ phase = "listening"
    /\ Len(reqs) < limit
    /\ \E m \in Methods, u \in U :
        LET r == Handler(NewReq(m, u), data)
        IN  IF r.st = "fault"
            THEN /\ reqs' = Append(AbortAll(reqs), r)
                 /\ phase' = "crashed"
            ELSE /\ reqs' = Append(reqs, r)
                 /\ phase' = phase
    /\ UNCHANGED <<env, port, data, mimeTypes, fs>>

\* Faulty variant of ReadDone: the type found for an extension is stored in
\* the table (mimeTypes[ext] = mimeTypes[ext] || 'application/octet-stream').
ReadDoneCaching(i) ==
    /\ phase = "listening"
    /\ reqs[i].st = "reading"
    /\ LET res == readFile(fs, reqs[i].safePath)
           r   == [reqs[i] EXCEPT !.readDone = TRUE, !.readErr = res.err]
           ext == toLowerCase(extname(r.safePath))
       IN  /\ reqs' = [reqs EXCEPT ![i] =
                      ApplyCallbacks(r, ServeStatic(res, mimeTypes, r.safePath))]
           /\ mimeTypes' = IF res.err = ""
                           THEN (ext :> MimeLookup(mimeTypes, ext)) @@ mimeTypes
                           ELSE mimeTypes
    /\ UNCHANGED <<env, phase, port, data, fs>>

\* The read of request i ends and fs.readFile calls back, lines 93-101 and
\* 121-129.
ReadDone(i) ==
    /\ phase = "listening"
    /\ reqs[i].st = "reading"
    /\ LET res == readFile(fs, reqs[i].safePath)
           r   == [reqs[i] EXCEPT !.readDone = TRUE, !.readErr = res.err]
       IN  reqs' = [reqs EXCEPT ![i] =
                      ApplyCallbacks(r, ServeStatic(res, mimeTypes, r.safePath))]
    /\ UNCHANGED <<env, phase, port, data, mimeTypes, fs>>

ReadSome == \E i \in 1..Len(reqs) : ReadDone(i)

\* Several requests in flight.
Next == Start \/ Request(ConcUrls, MaxReqs) \/ ReadSome
Spec == Init /\ [][Next]_vars

\* One request, over every short URL.
NextUrl == Start \/ Request(AllUrls, 1) \/ ReadSome
SpecUrl == Init /\ [][NextUrl]_vars

\* A request repeated with other requests between its two occurrences.
NextRepeat == Start \/ Request(RepeatUrls, MaxReqs + 1) \/ ReadSome
SpecRepeat == Init /\ [][NextRepeat]_vars

\* Start-up, over every short value of PORT.
NextPort == Start
SpecPort == InitPort /\ [][NextPort]_vars

----------------------------------------------------------------------------
(* Properties. *)

Reqs == {reqs[i] : i \in 1..Len(reqs)}

\* The text JSON.stringify(data) produces for the object literal of lines
\* 23-69 (with the same two characters written in ASCII).
ExpectedApiBody ==
    "{\"problem\":\"Moving money across borders with traditional banks is slow, costly and lacks transparency. Exchange rates often include hidden mark-ups and customers rarely know the full cost upfront.\",\"solution\":[\"Open a single account to hold and convert more than 40 currencies.\",\"Send payments to over 70 countries using the mid-market rate and low fees.\",\"Spend or withdraw cash in 160+ countries with a Wise card; freeze and unfreeze the card in-app.\",\"Transfers are protected with two-factor authentication, encryption and biometrics.\"]"
    \o ",\"coreFeatures\":[\"Multi-currency wallet with instant conversion between 40+ currencies.\",\"Low, transparent transfer fees starting from around 0.43%.\",\"Fast transfers -- over 65% arrive in under 20 seconds.\",\"Local account details for 9 currencies so you can get paid like a local.\",\"Wise card for global spending and cash withdrawals with automatic currency conversion.\",\"In-app dashboard to track balances, transfers and transaction history.\"]"
    \o ",\"targetUsers\":[\"Freelancers and remote workers paid in multiple currencies.\",\"Expats and travellers managing money abroad.\",\"Small businesses paying overseas suppliers and contractors.\",\"Individuals sending money to family in other countries.\"]"
    \o ",\"valueProposition\":[\"Real mid-market exchange rates with no hidden mark-ups.\",\"Faster transfers than traditional banks -- many arrive instantly.\",\"Transparent pricing displayed before you send.\",\"Local account details make receiving payments simple and often free.\",\"Regulated money services business, using two-factor authentication and encryption.\"]"
    \o ",\"successMetrics\":[\"Growth in transfer volume and repeat transactions.\",\"Retention of active users and frequency of app usage.\",\"App Store rating (currently 4.7/5 with 91k+ reviews).\",\"Expansion of the customer base (16 million+ users worldwide).\"]"
    \o ",\"techStack\":[\"Native apps for iOS and Android devices.\",\"Back-end integrations with global banking networks and payment rails.\",\"Security features including two-factor authentication, encryption and biometric logins.\",\"Wise operates as a Money Service Business rather than a bank, safeguarding funds through partner banks.\"]"
    \o ",\"monetization\":[\"Small flat fees and a low margin on currency conversion.\",\"Interest on USD balances for eligible US customers.\"]}"

IsNotFound(r) ==
    r.status = 404 /\ r.ctype = "text/plain; charset=UTF-8"
                   /\ r.body = "404 Not Found"

SameResponse(a, b) ==
    a.status = b.status /\ a.ctype = b.ctype /\ a.body = b.body

\* C1: a request is answered by the JSON responder exactly when its raw URL
\* is "/api/data", whatever its method, and then the response is 200 with
\* type application/json; charset=UTF-8 and the serialised product summary
\* as body, the same for every such request.
C1_ApiExactMatch ==
    \A r \in Reqs :
        /\ r.via = "api" <=> r.url = ApiPath
        /\ r.url = ApiPath =>
              /\ r.st = "done"
              /\ r.status = 200
              /\ r.ctype = "application/json; charset=UTF-8"
              /\ r.body = ExpectedApiBody

\* A POST to /api/data is answered while an earlier file read is outstanding.
C1_Witness ==
    /\ Len(reqs) = 2
    /\ reqs[1].st = "reading"
    /\ reqs[2].url = ApiPath /\ reqs[2].method = "POST"
    /\ reqs[2].st = "done" /\ reqs[2].body = ExpectedApiBody

\* p names a regular file of f that can be read.
Readable(f, p) == p \in DOMAIN f /\ f[p].kind = "file"

C3_TwoOutcomes ==
    \A r \in Reqs :
        /\ r.st # "fault"
        /\ r.st = "done" => (r.status = 200 \/ IsNotFound(r))

RootUrls == {<<"/">>, <<>>, Undefined}

\* C4: with index.html in the static root, a request for "/", for the empty
\* URL or without URL gets the response of a request for "/index.html".
C4_RootIsIndex ==
    Readable(fs, InBase(IndexHtml)) =>
        \A a, b \in Reqs :
            (a.url \in RootUrls /\ b.url = IndexPath
                /\ a.st = "done" /\ b.st = "done") => SameResponse(a, b)

\* "/" and "/index.html" have both been answered with the index document.
C4_Witness ==
    /\ Readable(fs, InBase(IndexHtml))
    /\ \E a, b \in Reqs :
          /\ a.url = <<"/">> /\ b.url = IndexPath
          /\ a.st = "done" /\ b.st = "done"
          /\ a.status = 200 /\ a.body = fs[InBase(IndexHtml)].content

\* The content type the MIME table of the specification gives to a
\* lowercased extension.
TypeOfExtension(ext) ==
    CASE ext = <<".", "h", "t", "m", "l">> -> "text/html; charset=UTF-8"
      [] ext = <<".", "c", "s", "s">> -> "text/css; charset=UTF-8"
      [] ext = <<".", "j", "s">> -> "text/javascript; charset=UTF-8"
      [] ext = <<".", "j", "s", "o", "n">> -> "application/json; charset=UTF-8"
      [] ext = <<".", "p", "n", "g">> -> "image/png"
      [] ext = <<".", "j", "p", "g">> -> "image/jpeg"
      [] ext = <<".", "j", "p", "e", "g">> -> "image/jpeg"
      [] ext = <<".", "s", "v", "g">> -> "image/svg+xml"
      [] OTHER -> "application/octet-stream"

\* C5: a file that was read is answered with 200, its bytes and the content
\* type of the lowercased extension of its path, application/octet-stream
\* when the table has no row for it.
C5_MimeByExtension ==
    \A r \in Reqs :
        (r.readDone /\ r.readErr = "") =>
            /\ r.status = 200
            /\ Readable(fs, r.safePath)
            /\ r.body = fs[r.safePath].content
            /\ r.ctype = TypeOfExtension(toLowerCase(extname(r.safePath)))

\* L.PNG, whose extension is in upper case, is served as image/png.
C5_Witness ==
    \E r \in Reqs :
        /\ r.readDone /\ r.readErr = ""
        /\ r.safePath = InBase(<<"L", ".", "P", "N", "G">>)
        /\ r.ctype = "image/png" /\ r.body = "PNG-bytes"

\* Two requests with the same method and URL, both answered, have the same
\* response.
SameRequestSameResponse ==
    \A a, b \in Reqs :
        (a.method = b.method /\ a.url = b.url
            /\ a.st = "done" /\ b.st = "done") => SameResponse(a, b)

\* No step of the listening server changes the product summary, the MIME
\* table or the port.
HandlerKeepsState ==
    phase = "listening" => (data' = data /\ mimeTypes' = mimeTypes /\ port' = port)

\* C6: handling a request changes no server state, and the same request
\* issued again, with other requests handled in between, gets the same
\* response.
C6_Idempotent == [][HandlerKeepsState]_vars /\ []SameRequestSameResponse

\* The first and the third request are the same static request, a different
\* request was handled between them, and all three are answered.
C6_Witness ==
    /\ Len(reqs) = 3
    /\ reqs[1].url = reqs[3].url /\ reqs[1].method = reqs[3].method
    /\ reqs[2].url # reqs[1].url
    /\ reqs[1].via = "static"
    /\ \A i \in 1..3 : reqs[i].st = "done"

\* s, without the white space around it, is a decimal integer with an
\* optional sign.
IsDecimalNumber(s) ==
    /\ s # Undefined
    /\ \E a, b \in 1..Len(s) :
          /\ a <= b
          /\ \A i \in 1..(a - 1) : IsWhiteSpace(s[i])
          /\ \A i \in (b + 1)..Len(s) : IsWhiteSpace(s[i])
          /\ \/ \A i \in a..b : IsDigit(s[i])
             \/ a < b /\ s[a] \in {"-", "+"} /\ \A i \in (a + 1)..b : IsDigit(s[i])

\* C7: with PORT set to 8080 the server listens on 8080; with PORT unset or
\* not a number it listens on 3000.
C7_PortSelection ==
    phase # "load" =>
        /\ env = <<"8", "0", "8", "0">> => (phase = "listening" /\ port = 8080)
        /\ ~IsDecimalNumber(env) => (phase = "listening" /\ port = 3000)

\* p is the base directory or lies below it.
InsideBase(p) == p = BaseDir \/ StartsWith(p, BaseDir \o <<"/">>)

\* C8: the path the handler gives to the file read lies inside the base
\* directory.
C8_NoTraversal ==
    \A r \in Reqs : r.via = "static" => InsideBase(r.safePath)

\* The response the server gives to URL u on filesystem f when nothing else
\* is in flight.
OwnResponse(f, u) ==
    IF u = ApiPath
    THEN [status |-> 200, ctype |-> JsonType, body |-> ExpectedApiBody]
    ELSE LET p == pathJoin(BaseDir, decodeURIComponent(NormaliseUrl(u)).s)
         IN  IF Readable(f, p)
             THEN [status |-> 200, ctype |-> StaticMime(MimeTable, p),
                   body |-> f[p].content]
             ELSE [status |-> 404, ctype |-> PlainType, body |-> NotFoundBody]

\* C9: while the read of a request is outstanding every other request is
\* accepted and answered, the outstanding request stays answerable, and each
\* response is the one its own URL and file determine.
C9_NonBlocking ==
    \A i, j \in 1..Len(reqs) :
        /\ reqs[i].st # "aborted"
        /\ (i # j /\ reqs[i].st = "reading") => reqs[j].st \in {"reading", "done"}
        /\ reqs[i].st = "done" =>
              SameResponse(reqs[i], OwnResponse(fs, reqs[i].url))

\* C10: a request is answered at most once, and exactly once when its read
\* has ended: the callback of serveStatic runs once, the head is written once
\* and the response ended once, and the API branch starts no read.
C10_AnsweredOnce ==
    \A r \in Reqs :
        /\ r.heads <= 1 /\ r.ends <= 1 /\ r.callbacks <= 1
        /\ r.readDone => (r.callbacks = 1 /\ r.heads = 1 /\ r.ends = 1
                            /\ r.st = "done")
        /\ r.st = "done" => (r.heads = 1 /\ r.ends = 1)
        /\ r.st \in {"reading", "aborted", "fault"} =>
              (r.heads = 0 /\ r.ends = 0 /\ r.callbacks = 0)
        /\ r.via = "api" =>
              (r.st = "done" /\ r.callbacks = 0 /\ ~r.readDone /\ r.safePath = <<>>)

\* A failed read and an API request have each been answered once.
C10_Witness ==
    \E a, b \in Reqs :
        /\ a.readDone /\ a.readErr # "" /\ a.heads = 1 /\ a.ends = 1
        /\ b.via = "api" /\ b.heads = 1 /\ b.ends = 1

====
